---- MODULE Spec2Model ----
(***************************************************************************)
(* Model of rax: the dynamic computation graph of src/autograd.rs          *)
(* (Tensor, GraphNode, add, Tensor::backward) and the parameter-update     *)
(* optimizers of src/optimizer.rs.                                         *)
(*                                                                         *)
(* Tensors live behind Rc<RefCell<Tensor>> handles held by the caller; a   *)
(* handle is modelled as the index of the tensor in `tensors`.  GraphNode  *)
(* allocations live in `graph`, each with its Rc strong count, so that     *)
(* Weak::upgrade is decided by the count exactly as in std::rc.  Tensor    *)
(* data is a scalar (a zero-dimensional array), represented by an integer. *)
(* Option<T> is a sequence: <<>> is None and <<x>> is Some(x).             *)
(***************************************************************************)
EXTENDS Integers, Sequences, FiniteSets, TLC

VARIABLES tensors, graph, producer, pc, root, rootClone, stack, visited,
          grad0,
          opt, params, outcome, last, sweep, calls

autoVars == <<tensors, graph, producer, pc, root, rootClone, stack, visited,
              grad0>>
optVars == <<opt, params, outcome, last, sweep, calls>>
vars == <<tensors, graph, producer, pc, root, rootClone, stack, visited,
          grad0, opt, params, outcome, last, sweep, calls>>

\* ------------------------------------------------------------------ bounds
MaxTensors == 3
MaxSeeds == 2

DataVals == {1}
SeedVals == 1..MaxSeeds

None == <<>>
Some(x) == <<x>>

\* ----------------------------------------------------------- autograd.rs
\* Tensor::new: no gradient, no creator.
TensorNew(data, requires_grad) ==
    [data |-> data, grad |-> None, requires_grad |-> requires_grad,
     creator |-> None]

\* GraphNode::new wrapped by Rc::new: one strong owner, the temporary.
GraphNodeNew(operation, inputs) ==
    [operation |-> operation, inputs |-> inputs, strong |-> 1]

\* The Rc kept alive past the statement that creates it (not what add does).
DropTemporaryKept(node) == node

\* End of the statement on line 88: the temporary Rc<RefCell<GraphNode>>
\* that was only downgraded is dropped, releasing its strong count.
DropTemporary(node) == [node EXCEPT !.strong = @ - 1]

\* Weak::upgrade on a creator: the GraphNode if a strong owner is left.
Upgrade(creator_weak) ==
    IF graph[creator_weak].strong > 0 THEN Some(creator_weak) ELSE None

\* Tracking of the output when both operands must be tracked.
AddRequiresGradBoth(a, b) ==
    tensors[a].requires_grad /\ tensors[b].requires_grad

\* Line 75: the output is tracked when either operand is.
AddRequiresGrad(a, b) ==
    tensors[a].requires_grad \/ tensors[b].requires_grad

\* Element of the stack: 0 is the clone of the root made on line 32, any
\* other value is a shared handle to a tensor.
Deref(h) == IF h = 0 THEN rootClone ELSE tensors[h]

Handle(h) == IF h = 0 THEN root ELSE h

\* Array::ones of the shape of the data: the scalar one.
Ones == 1

Idle == pc # "run" /\ pc # "panicked"

\* The record of the last backward run (its root, the clone, the order of
\* the pops and the gradients it started from) is kept until the next call.
ForgetRun ==
    /\ root' = 0
    /\ rootClone' = TensorNew(0, FALSE)
    /\ visited' = <<>>
    /\ grad0' = <<>>

\* let t = Rc::new(RefCell::new(Tensor::new(data, requires_grad)))
NewTensor(data, requires_grad) ==
    /\ Idle
    /\ Len(tensors) < MaxTensors
    /\ tensors' = Append(tensors, TensorNew(data, requires_grad))
    /\ producer' = Append(producer, <<>>)
    /\ pc' = "idle"
    /\ ForgetRun
    /\ UNCHANGED <<graph, stack>>
    /\ UNCHANGED optVars

\* add(&tensor1, &tensor2)
Add(a, b) ==
    /\ Idle
    /\ Len(tensors) < MaxTensors
    /\ LET data == tensors[a].data + tensors[b].data
           requires_grad == AddRequiresGrad(a, b)
           output == TensorNew(data, requires_grad)
           node == GraphNodeNew("add", <<a, b>>)
       IN  IF requires_grad
           THEN /\ graph' = Append(graph, DropTemporary(node))
                /\ tensors' = Append(tensors,
                       [output EXCEPT !.creator = Some(Len(graph) + 1)])
           ELSE /\ graph' = graph
                /\ tensors' = Append(tensors, output)
    /\ producer' = Append(producer, <<a, b>>)
    /\ pc' = "idle"
    /\ ForgetRun
    /\ UNCHANGED stack
    /\ UNCHANGED optVars

\* Tensor::zero_grad
ZeroGrad(t) ==
    /\ Idle
    /\ tensors[t].grad # None
    /\ tensors' = [tensors EXCEPT ![t].grad = None]
    /\ pc' = "idle"
    /\ ForgetRun
    /\ UNCHANGED <<graph, producer, stack>>
    /\ UNCHANGED optVars

\* The caller seeds a gradient by writing the public field grad.
SetGrad(t, g) ==
    /\ Idle
    /\ tensors[t].grad # Some(g)
    /\ tensors' = [tensors EXCEPT ![t].grad = Some(g)]
    /\ pc' = "idle"
    /\ ForgetRun
    /\ UNCHANGED <<graph, producer, stack>>
    /\ UNCHANGED optVars

\* Tensor::backward, lines 28-32: default seed, then the stack holding a
\* clone of self.
BackwardStart(t) ==
    /\ Idle
    /\ LET seeded == IF tensors[t].grad = None
                     THEN [tensors[t] EXCEPT !.grad = Some(Ones)]
                     ELSE tensors[t]
       IN  /\ tensors' = [tensors EXCEPT ![t] = seeded]
           /\ rootClone' = seeded
    /\ grad0' = [i \in 1..Len(tensors) |-> tensors[i].grad]
    /\ root' = t
    /\ stack' = <<0>>
    /\ visited' = <<>>
    /\ pc' = "run"
    /\ UNCHANGED <<graph, producer>>
    /\ UNCHANGED optVars

\* Tensor::backward, lines 34-49: one iteration of the while-let loop; the
\* call returns when the pop leaves the stack empty and nothing is pushed.
\* With a live creator the Ref taken on line 40 is still held when line 41
\* asks for borrow_mut on the same RefCell, which panics.
BackwardStep ==
    /\ pc = "run"
    /\ stack # <<>>
    /\ LET h == stack[Len(stack)]
           rest == SubSeq(stack, 1, Len(stack) - 1)
           node == Deref(h)
           live == IF node.creator = None
                   THEN None
                   ELSE Upgrade(node.creator[1])
       IN  /\ visited' = Append(visited, Handle(h))
           /\ stack' = rest
           /\ IF live # None
              THEN pc' = "panicked"
              ELSE pc' = IF rest = <<>> THEN "done" ELSE "run"
    /\ UNCHANGED <<tensors, graph, producer, root, rootClone, grad0>>
    /\ UNCHANGED optVars

\* ---------------------------------------------------------- optimizer.rs
\* f64 is modelled in fixed point: the integer x stands for x / SCALE, and
\* products, quotients and square roots round down to a multiple of 1/SCALE.
SCALE == 100

FMul(a, b) == (a * b) \div SCALE

FDiv(a, b) == (a * SCALE) \div b

Min2(a, b) == IF a <= b THEN a ELSE b

RECURSIVE ISqrtBetween(_, _, _)
ISqrtBetween(x, lo, hi) ==
    IF lo >= hi THEN lo
    ELSE LET mid == (lo + hi + 1) \div 2
         IN  IF mid * mid <= x
             THEN ISqrtBetween(x, mid, hi)
             ELSE ISqrtBetween(x, lo, mid - 1)

\* f64::sqrt; the search starts below the largest root whose square TLC can
\* compute.
FSqrt(a) == ISqrtBetween(a * SCALE, 0, Min2(a * SCALE, 46340))

\* f64::powi
RECURSIVE FPowi(_, _)
FPowi(b, n) == IF n = 0 THEN SCALE ELSE FMul(b, FPowi(b, n - 1))

\* vec![0.0; n]
Zeros(n) == [i \in 1..n |-> 0]

SeqsUpTo(S, n) == UNION {[1..k -> S] : k \in 0..n}

SGDNew(learning_rate) == [kind |-> "SGD", learning_rate |-> learning_rate]

AdamNew(learning_rate, beta1, beta2, epsilon) ==
    [kind |-> "Adam", learning_rate |-> learning_rate, beta1 |-> beta1,
     beta2 |-> beta2, epsilon |-> epsilon, m |-> <<>>, v |-> <<>>, t |-> 0]

RMSpropNew(learning_rate, decay_rate, epsilon) ==
    [kind |-> "RMSprop", learning_rate |-> learning_rate,
     decay_rate |-> decay_rate, epsilon |-> epsilon, cache |-> <<>>]

AdaGradNew(learning_rate, epsilon) ==
    [kind |-> "AdaGrad", learning_rate |-> learning_rate,
     epsilon |-> epsilon, cache |-> <<>>]

MomentumNew(learning_rate, momentum) ==
    [kind |-> "Momentum", learning_rate |-> learning_rate,
     momentum |-> momentum, velocity |-> <<>>]

GridSearchNew(step_size) ==
    [kind |-> "GridSearch", step_size |-> step_size, current_dim |-> 0,
     direction |-> 1]

\* The result of a call of step: the optimizer, the caller's vector and
\* whether the call returned or panicked.
Returned(o, p) == [opt |-> o, params |-> p, outcome |-> "ok"]

Panicked(o, p) == [opt |-> o, params |-> p, outcome |-> "panic"]

\* The elements a zip of the given lengths visits.
Zipped(lens) == 1..(CHOOSE n \in lens : \A k \in lens : n <= k)

SGDStep(o, p, grads) ==
    LET idx == Zipped({Len(p), Len(grads)})
    IN  Returned(o, [i \in 1..Len(p) |->
            IF i \in idx THEN p[i] - FMul(o.learning_rate, grads[i])
            ELSE p[i]])

SGDReset(o) == o

AdamStep(o, p, grads) ==
    LET m0 == IF o.m = <<>> THEN Zeros(Len(p)) ELSE o.m
        v0 == IF o.m = <<>> THEN Zeros(Len(p)) ELSE o.v
        t == o.t + 1
        idx == Zipped({Len(p), Len(grads), Len(m0), Len(v0)})
        m == [i \in 1..Len(m0) |->
                 IF i \in idx
                 THEN FMul(o.beta1, m0[i]) + FMul(SCALE - o.beta1, grads[i])
                 ELSE m0[i]]
        v == [i \in 1..Len(v0) |->
                 IF i \in idx
                 THEN FMul(o.beta2, v0[i])
                      + FMul(FMul(SCALE - o.beta2, grads[i]), grads[i])
                 ELSE v0[i]]
        m_hat(i) == FDiv(m[i], SCALE - FPowi(o.beta1, t))
        v_hat(i) == FDiv(v[i], SCALE - FPowi(o.beta2, t))
    IN  Returned([o EXCEPT !.m = m, !.v = v, !.t = t],
            [i \in 1..Len(p) |->
                IF i \in idx
                THEN p[i] - FDiv(FMul(o.learning_rate, m_hat(i)),
                                 FSqrt(v_hat(i)) + o.epsilon)
                ELSE p[i]])

\* A reset that clears the moment estimates and keeps the step counter.
AdamResetKeepsT(o) == [o EXCEPT !.m = <<>>, !.v = <<>>]

AdamReset(o) == [o EXCEPT !.m = <<>>, !.v = <<>>, !.t = 0]

RMSpropStep(o, p, grads) ==
    LET c0 == IF o.cache = <<>> THEN Zeros(Len(p)) ELSE o.cache
        idx == Zipped({Len(p), Len(grads), Len(c0)})
        cache == [i \in 1..Len(c0) |->
                     IF i \in idx
                     THEN FMul(o.decay_rate, c0[i])
                          + FMul(FMul(SCALE - o.decay_rate, grads[i]), grads[i])
                     ELSE c0[i]]
    IN  Returned([o EXCEPT !.cache = cache],
            [i \in 1..Len(p) |->
                IF i \in idx
                THEN p[i] - FDiv(FMul(o.learning_rate, grads[i]),
                                 FSqrt(cache[i]) + o.epsilon)
                ELSE p[i]])

RMSpropReset(o) == [o EXCEPT !.cache = <<>>]

AdaGradStep(o, p, grads) ==
    LET c0 == IF o.cache = <<>> THEN Zeros(Len(p)) ELSE o.cache
        idx == Zipped({Len(p), Len(grads), Len(c0)})
        cache == [i \in 1..Len(c0) |->
                     IF i \in idx THEN c0[i] + FMul(grads[i], grads[i])
                     ELSE c0[i]]
    IN  Returned([o EXCEPT !.cache = cache],
            [i \in 1..Len(p) |->
                IF i \in idx
                THEN p[i] - FDiv(FMul(o.learning_rate, grads[i]),
                                 FSqrt(cache[i]) + o.epsilon)
                ELSE p[i]])

AdaGradReset(o) == [o EXCEPT !.cache = <<>>]

MomentumStep(o, p, grads) ==
    LET v0 == IF o.velocity = <<>> THEN Zeros(Len(p)) ELSE o.velocity
        idx == Zipped({Len(p), Len(grads), Len(v0)})
        velocity == [i \in 1..Len(v0) |->
                        IF i \in idx
                        THEN FMul(o.momentum, v0[i])
                             - FMul(o.learning_rate, grads[i])
                        ELSE v0[i]]
    IN  Returned([o EXCEPT !.velocity = velocity],
            [i \in 1..Len(p) |->
                IF i \in idx THEN p[i] + velocity[i] ELSE p[i]])

MomentumReset(o) == [o EXCEPT !.velocity = <<>>]

\* A sweep that never turns round at the end of a pass.
GridSearchStepNoTurn(o, p, grads) ==
    IF o.current_dim >= Len(p)
    THEN Panicked(o, p)
    ELSE Returned([o EXCEPT !.current_dim = (o.current_dim + 1) % Len(p)],
                  [p EXCEPT ![o.current_dim + 1] =
                                @ + o.step_size * o.direction])

\* Indexing params[current_dim] past the end panics before anything is
\* written; an empty vector always does.
GridSearchStep(o, p, grads) ==
    IF o.current_dim >= Len(p)
    THEN Panicked(o, p)
    ELSE LET current_dim == (o.current_dim + 1) % Len(p)
             direction == IF current_dim = 0 THEN o.direction * (-1)
                          ELSE o.direction
         IN  Returned([o EXCEPT !.current_dim = current_dim,
                                !.direction = direction],
                      [p EXCEPT ![o.current_dim + 1] =
                                    @ + o.step_size * o.direction])

GridSearchReset(o) == [o EXCEPT !.current_dim = 0, !.direction = 1]

\* Optimizer::step through the trait object.
Step(o, p, grads) ==
    CASE o.kind = "SGD" -> SGDStep(o, p, grads)
      [] o.kind = "Adam" -> AdamStep(o, p, grads)
      [] o.kind = "RMSprop" -> RMSpropStep(o, p, grads)
      [] o.kind = "AdaGrad" -> AdaGradStep(o, p, grads)
      [] o.kind = "Momentum" -> MomentumStep(o, p, grads)
      [] o.kind = "GridSearch" -> GridSearchStep(o, p, grads)

\* Optimizer::reset through the trait object.
Reset(o) ==
    CASE o.kind = "SGD" -> SGDReset(o)
      [] o.kind = "Adam" -> AdamReset(o)
      [] o.kind = "RMSprop" -> RMSpropReset(o)
      [] o.kind = "AdaGrad" -> AdaGradReset(o)
      [] o.kind = "Momentum" -> MomentumReset(o)
      [] o.kind = "GridSearch" -> GridSearchReset(o)

\* A newly constructed optimizer of the kind and hyperparameters of o.
Fresh(o) ==
    CASE o.kind = "SGD" -> SGDNew(o.learning_rate)
      [] o.kind = "Adam" ->
             AdamNew(o.learning_rate, o.beta1, o.beta2, o.epsilon)
      [] o.kind = "RMSprop" ->
             RMSpropNew(o.learning_rate, o.decay_rate, o.epsilon)
      [] o.kind = "AdaGrad" -> AdaGradNew(o.learning_rate, o.epsilon)
      [] o.kind = "Momentum" -> MomentumNew(o.learning_rate, o.momentum)
      [] o.kind = "GridSearch" -> GridSearchNew(o.step_size)

\* Bounds and inputs of the optimizer runs.
MaxLen == 2
MaxCalls == 3

ParamVals == {0, SCALE}
GradVals == {SCALE}
Half == SCALE \div 2
Hundredth == SCALE \div 100

Constructed ==
    {SGDNew(Half), AdamNew(Half, Half, Half, Hundredth),
     RMSpropNew(Half, Half, Hundredth), AdaGradNew(Half, Hundredth),
     MomentumNew(Half, Half), GridSearchNew(SCALE)}

Alive == opt.kind # "none" /\ outcome # "panic"

\* optimizer.step(&mut params, &grads)
OptStep(grads) ==
    /\ Alive
    /\ calls < MaxCalls
    /\ LET r == Step(opt, params, grads)
       IN  /\ opt' = r.opt
           /\ params' = r.params
           /\ outcome' = r.outcome
    /\ last' = [op |-> "step", grads |-> grads, prev |-> last.op]
    /\ sweep' = [k |-> sweep.k + 1,
                 n |-> IF sweep.k = 0 THEN Len(params) ELSE sweep.n,
                 fixed |-> IF sweep.k = 0 THEN TRUE
                           ELSE sweep.fixed /\ sweep.n = Len(params)]
    /\ calls' = calls + 1
    /\ UNCHANGED autoVars

\* optimizer.reset()
OptReset ==
    /\ Alive
    /\ opt' = Reset(opt)
    /\ last' = [op |-> "reset", grads |-> <<>>, prev |-> last.op]
    /\ sweep' = [k |-> 0, n |-> 0, fixed |-> TRUE]
    /\ UNCHANGED <<params, outcome, calls>>
    /\ UNCHANGED autoVars

\* The caller hands another parameter vector to the next call.
SetParams(p) ==
    /\ Alive
    /\ p # params
    /\ params' = p
    /\ UNCHANGED <<opt, outcome, last, sweep, calls>>
    /\ UNCHANGED autoVars

\* ------------------------------------------------ the graph as it was built
\* Operands of the add that produced t which take part in differentiation.
TrackedInputs(t) ==
    IF producer[t] = <<>>
    THEN {}
    ELSE {i \in {producer[t][1], producer[t][2]} : tensors[i].requires_grad}

RECURSIVE ReachableFrom(_)
ReachableFrom(t) ==
    {t} \cup UNION {ReachableFrom(i) : i \in TrackedInputs(t)}

\* Nodes reachable backward from r; an untracked root reaches nothing.
Reachable(r) == IF tensors[r].requires_grad THEN ReachableFrom(r) ELSE {}

\* Number of operand slots through which x is reached from r.
RECURSIVE Paths(_, _)
Paths(r, x) ==
    IF r = x THEN 1
    ELSE IF producer[r] = <<>> \/ ~tensors[r].requires_grad THEN 0
    ELSE Paths(producer[r][1], x) + Paths(producer[r][2], x)

Dispatches(n) == {i \in DOMAIN visited : visited[i] = n}

RunDone == pc = "done"

\* The seed of the finished run: the gradient the root holds.
Seed == tensors[root].grad[1]

\* ------------------------------------------------------------------ claims

\* C1: gradient contributions are summed: after y = add(x, x) with x tracked
\* and a backward run on y with the default seed 1, gradient(x) is 2.
C1_SharedUseSummed ==
    \A x \in 1..Len(tensors) :
        ( /\ RunDone
          /\ producer[root] = <<x, x>>
          /\ tensors[x].requires_grad
          /\ grad0[root] = None
          /\ grad0[x] = None )
        => tensors[x].grad = Some(2 * Ones)

\* C2: linearity of add: after c = add(a, b) with a and b tracked and
\* distinct, each reached through one operand slot, a backward run on c with
\* seed g leaves gradient(a) = g and gradient(b) = g.
C2_AddLinear ==
    \A a \in 1..Len(tensors), b \in 1..Len(tensors) :
        ( /\ RunDone
          /\ producer[root] = <<a, b>>
          /\ tensors[a].requires_grad /\ tensors[b].requires_grad
          /\ Paths(root, a) = 1 /\ Paths(root, b) = 1
          /\ grad0[a] = None /\ grad0[b] = None )
        => /\ tensors[a].grad = Some(Seed)
           /\ tensors[b].grad = Some(Seed)

\* C3: when both operands of add are untracked, a backward run on the result
\* leaves the result without a gradient, stores none on the operands and
\* raises no error.
C3_UntrackedExcluded ==
    /\ pc # "panicked"
    /\ \A a \in 1..Len(tensors), b \in 1..Len(tensors) :
        ( /\ RunDone
          /\ producer[root] = <<a, b>>
          /\ ~tensors[a].requires_grad /\ ~tensors[b].requires_grad
          /\ grad0[root] = None )
        => /\ tensors[root].grad = None
           /\ tensors[a].grad = grad0[a]
           /\ tensors[b].grad = grad0[b]

\* C4: when a backward run is over, every node reachable from the root has
\* been dispatched, and each one only after all its reachable consumers.
C4_ConsumersFirst ==
    RunDone =>
        \A n \in Reachable(root) :
            /\ Dispatches(n) # {}
            /\ \A c \in Reachable(root) :
                   n \in TrackedInputs(c) =>
                       /\ Dispatches(c) # {}
                       /\ \A i \in Dispatches(n), j \in Dispatches(c) : j < i

\* C5: a backward run completes having dispatched every node reachable from
\* the root exactly once, however many paths lead to it.
C5_ExactlyOnce ==
    RunDone => \A n \in Reachable(root) : Cardinality(Dispatches(n)) = 1

\* C6: the node returned by add(a, b) is tracked iff a or b is, and it has a
\* creator iff it is tracked; with no tracked operand it is a plain leaf.
C6_TrackingContagious ==
    \A t \in 1..Len(tensors) :
        producer[t] # <<>> =>
            LET a == producer[t][1]
                b == producer[t][2]
            IN  /\ tensors[t].requires_grad
                       = (tensors[a].requires_grad \/ tensors[b].requires_grad)
                /\ (tensors[t].creator # None) = tensors[t].requires_grad
                /\ tensors[t].creator # None =>
                       /\ tensors[t].creator[1] \in 1..Len(graph)
                       /\ graph[tensors[t].creator[1]].inputs = <<a, b>>

\* C6 witness: a tracked add result, holding a creator, one operand of which
\* is untracked.
C6_Witness ==
    \E t \in 1..Len(tensors) :
        /\ producer[t] # <<>>
        /\ tensors[t].requires_grad
        /\ tensors[t].creator # None
        /\ \E i \in {producer[t][1], producer[t][2]} :
               ~tensors[i].requires_grad

\* C9: the operation record made by add has no strong owner once add has
\* returned, so a backward run never panics, pops the root only, leaves the
\* root with its seed and every other gradient as it was before the run.
C9_RecordDroppedNoPropagation ==
    /\ \A n \in 1..Len(graph) : graph[n].strong = 0
    /\ pc # "panicked"
    /\ RunDone =>
           /\ visited = <<root>>
           /\ tensors[root].grad =
                  IF grad0[root] = None THEN Some(Ones) ELSE grad0[root]
           /\ \A i \in 1..Len(tensors) :
                  i # root => tensors[i].grad = grad0[i]

\* C9 witness: a finished run on a tracked add result whose tracked operand
\* had no gradient before the run and has none after it.
C9_Witness ==
    /\ RunDone
    /\ producer[root] # <<>>
    /\ tensors[root].creator # None
    /\ \E i \in TrackedInputs(root) :
           grad0[i] = None /\ tensors[i].grad = None

AutoInit ==
    /\ tensors = <<>>
    /\ graph = <<>>
    /\ producer = <<>>
    /\ pc = "idle"
    /\ root = 0
    /\ rootClone = TensorNew(0, FALSE)
    /\ stack = <<>>
    /\ visited = <<>>
    /\ grad0 = <<>>

OptIdle ==
    /\ opt = [kind |-> "none"]
    /\ params = <<>>
    /\ outcome = "ok"
    /\ last = [op |-> "none", grads |-> <<>>, prev |-> "none"]
    /\ sweep = [k |-> 0, n |-> 0, fixed |-> TRUE]
    /\ calls = 0

Init == AutoInit /\ OptIdle

Next ==
    \/ \E d \in DataVals, rg \in BOOLEAN : NewTensor(d, rg)
    \/ \E a \in 1..Len(tensors), b \in 1..Len(tensors) : Add(a, b)
    \/ \E t \in 1..Len(tensors) : ZeroGrad(t)
    \/ \E t \in 1..Len(tensors), g \in SeedVals : SetGrad(t, g)
    \/ \E t \in 1..Len(tensors) : BackwardStart(t)
    \/ BackwardStep

Spec == Init /\ [][Next]_vars

OptInit ==
    /\ AutoInit
    /\ opt \in Constructed
    /\ params \in SeqsUpTo(ParamVals, MaxLen)
    /\ outcome = "ok"
    /\ last = [op |-> "new", grads |-> <<>>, prev |-> "new"]
    /\ sweep = [k |-> 0, n |-> 0, fixed |-> TRUE]
    /\ calls = 0

OptNext ==
    \/ \E g \in SeqsUpTo(GradVals, MaxLen) : OptStep(g)
    \/ OptReset
    \/ \E p \in SeqsUpTo(ParamVals, MaxLen) : SetParams(p)

OptSpec == OptInit /\ [][OptNext]_vars

\* A call of step is the only step that counts a call.
StepCalled == calls' = calls + 1

\* C7: reset leaves the running state of every deterministic optimizer equal
\* to that of a newly constructed instance with the same hyperparameters,
\* and the step after a reset returns what the first step of a new instance
\* returns on the same inputs.
C7_ResetRestoresFresh ==
    [][ /\ last'.op = "reset" => opt' = Fresh(opt')
        /\ (last.op = "reset" /\ StepCalled) =>
               LET r == Step(Fresh(opt), params, last'.grads)
               IN  /\ params' = r.params
                   /\ opt' = r.opt
                   /\ outcome' = r.outcome ]_vars

\* C7 witness: Adam after two or more steps, a reset and one more step: the
\* step counter is back at one.
C7_Witness ==
    /\ opt.kind = "Adam"
    /\ last.op = "step" /\ last.prev = "reset"
    /\ calls >= 2
    /\ opt.t = 1

\* C8: a step on an empty parameter vector, or on parameter and gradient
\* vectors of different lengths, fails with EmptyParameterSet and leaves the
\* parameters and the running state as they were.
C8_RejectsBadLengths ==
    [][ (StepCalled /\ (Len(params) = 0 \/ Len(params) # Len(last'.grads)))
        => /\ outcome' = "EmptyParameterSet"
           /\ params' = params
           /\ opt' = opt ]_vars

\* C10: with parameter vectors of one length n >= 1, step number k after
\* construction or reset of a GridSearch adds step_size to parameter k mod n
\* when k div n is even and subtracts it when odd, changes no other
\* parameter, keeps current_dim in 0..n-1 and direction in {1, -1}, and
\* turns the direction round exactly when a pass over the n dimensions ends.
C10_GridSweep ==
    [][ ( /\ opt.kind = "GridSearch"
          /\ StepCalled
          /\ sweep'.fixed
          /\ sweep'.n >= 1 )
        => LET k == sweep.k
               n == sweep'.n
               dir == IF (k \div n) % 2 = 0 THEN 1 ELSE -1
           IN  /\ outcome' = "ok"
               /\ params' = [params EXCEPT ![(k % n) + 1] =
                                               @ + dir * opt.step_size]
               /\ opt'.current_dim \in 0..(n - 1)
               /\ opt'.direction \in {1, -1}
               /\ (opt'.direction # opt.direction) = ((k + 1) % n = 0) ]_vars

\* C10 witness: a sweep over two dimensions that has finished its first pass
\* and is on its way back.
C10_Witness ==
    /\ opt.kind = "GridSearch"
    /\ sweep.fixed /\ sweep.n = 2 /\ sweep.k = 3
    /\ opt.direction = -1
    /\ opt.current_dim = 1

====
